---- MODULE Spec2Model ----
(***************************************************************************)
(* State-machine model of the sugarmaker WASM miner core:                  *)
(*   - scan_tidecoin_hash / compute_single_hash / get_hashes_done          *)
(*                                            (wasm/src/wasm-wrapper.c)    *)
(*   - fulltest                               (wasm/src/fulltest.c)        *)
(*   - alloc_region / init_region / free_region                            *)
(*                                  (wasm/yespower-1.0.1/yespower-platform.c) *)
(*                                                                         *)
(* Machine words are scaled: a byte has ByteMod values (256 in the         *)
(* program) and a uint32_t is four bytes, so it has WordMod = ByteMod^4    *)
(* values (2^32 in the program).  All uint32_t arithmetic is taken modulo  *)
(* WordMod, and every byte-order conversion works on the four bytes of a   *)
(* word, so wrap-around and endianness behave as in the program.           *)
(***************************************************************************)
EXTENDS Integers, Sequences, FiniteSets, TLC

VARIABLES
    \* ---- scan_tidecoin_hash: caller memory and the module's global
    header,         \* caller's 80-byte buffer behind block_data_ptr
    target,         \* caller's 32-byte buffer behind target_ptr
    hashes_done,    \* static unsigned long hashes_done
    \* ---- scan_tidecoin_hash: parameters, locals and control position
    pc,             \* "idle" | "loop" | "returned"
    start_nonce, max_nonce,
    n,              \* uint32_t n
    Htarg,          \* const uint32_t Htarg
    data,           \* union data (80 bytes)
    hash,           \* union hash, read as hash.u32[0..7]
    ret,            \* value returned by the last finished call
    \* ---- the hash oracle (yespower_tls)
    oracle_seed,    \* which deterministic hash function the oracle is
    \* ---- history of the current call (not program state)
    invoked,        \* nonces the oracle was invoked on, in order
    oracle_failed,  \* the oracle has failed during the current call
    header0,        \* header as it was when the current call started
    target0,        \* target as it was when the current call started
    hashes_done0,   \* hashes_done when the current call started
    last_miss,      \* <<start_nonce, max_nonce>> of the call before the current
                    \* one if that returned 0 and the current one starts at
                    \* its max_nonce + 1, else <<>>
    \* ---- compute_single_hash
    csh_pc,         \* "idle" | "returned"
    hash_output,    \* caller's 32-byte buffer behind hash_output_ptr
    csh_ret,        \* value returned by compute_single_hash
    csh_data,       \* the 80 bytes it gave to the oracle (history)
    \* ---- fulltest applied on its own
    ft_pc, ft_hash, ft_target, ft_rc,
    \* ---- scratch region and the C heap
    region,         \* yespower_region_t
    heap,           \* live malloc blocks, base -> size
    rg_op,          \* last region operation and what it did
    bad_free        \* free() was called on a pointer that is not a live block

scan_vars == <<header, target, hashes_done, pc, start_nonce, max_nonce, n, Htarg,
               data, hash, ret, oracle_seed, invoked, oracle_failed,
               header0, target0, hashes_done0, last_miss>>
ft_vars == <<ft_pc, ft_hash, ft_target, ft_rc>>
rg_vars == <<region, heap, rg_op, bad_free>>
csh_vars == <<csh_pc, hash_output, csh_ret, csh_data>>
vars == <<scan_vars, ft_vars, rg_vars, csh_vars>>

(***************************************************************************)
(* Bounds and program constants                                            *)
(***************************************************************************)
ByteMod == 2        \* values of one byte
MaxSpan == 1        \* nonce bounds are taken within MaxSpan of 0 and of the top
MaxSeed == 2        \* oracle hash functions 0..MaxSeed
MaxDiff == 3        \* limbs in which a fulltest digest may differ from its target
MaxSize == 2        \* alloc_region sizes 0..MaxSize
HeapTop == 130      \* malloc hands out addresses 1..HeapTop

WordMod == ByteMod * ByteMod * ByteMod * ByteMod
HeaderLen == 80
HashLen == 32
HashWords == 8
NonceWord == 19
Slack == 63         \* malloc(size + 63), base + 63
AlignMask == 63     \* (size_t)aligned & 63
NULL == 0

Bytes == 0 .. (ByteMod - 1)
Words == 0 .. (WordMod - 1)

(***************************************************************************)
(* Byte-order helpers (miner.h / sysendian.h).  A buffer is a function     *)
(* from byte offsets to bytes.                                             *)
(***************************************************************************)
le32dec(p, off) ==
    p[off] + p[off + 1] * ByteMod + p[off + 2] * ByteMod^2 + p[off + 3] * ByteMod^3

be32dec(p, off) ==
    p[off + 3] + p[off + 2] * ByteMod + p[off + 1] * ByteMod^2 + p[off] * ByteMod^3

\* byte k (0..3) of x in little-endian and in big-endian order
le32byte(x, k) == (x \div ByteMod^k) % ByteMod
be32byte(x, k) == (x \div ByteMod^(3 - k)) % ByteMod

le32enc(p, off, x) ==
    [j \in DOMAIN p |-> IF j \in off .. (off + 3) THEN le32byte(x, j - off) ELSE p[j]]

be32enc(p, off, x) ==
    [j \in DOMAIN p |-> IF j \in off .. (off + 3) THEN be32byte(x, j - off) ELSE p[j]]

\* A uint32_t lvalue read or written through a pointer or a union member:
\* the build target is wasm32, whose memory is little-endian.
HostLoad32(p, off) == le32dec(p, off)
HostByte(x, k) == le32byte(x, k)      \* byte k of a stored uint32_t

\* (uint32_t *)buf viewed as an array of k words
WordsOf(p, k) == [i \in 0 .. (k - 1) |-> HostLoad32(p, 4 * i)]

(***************************************************************************)
(* fulltest (fulltest.c): compare limbs from index 7 down to 0             *)
(***************************************************************************)
\* (changed) limbs compared from index 0 upwards
RECURSIVE fulltestFromLow(_, _, _)
fulltestFromLow(h, t, i) ==
    IF i < 0 THEN TRUE
    ELSE IF h[HashWords - 1 - i] > t[HashWords - 1 - i] THEN FALSE
    ELSE IF h[HashWords - 1 - i] < t[HashWords - 1 - i] THEN TRUE
    ELSE fulltestFromLow(h, t, i - 1)

fulltestFrom(h, t, i) ==
    LET ft[k \in -1 .. i] ==
            IF k < 0 THEN TRUE
            ELSE IF h[k] > t[k] THEN FALSE
            ELSE IF h[k] < t[k] THEN TRUE
            ELSE ft[k - 1]
    IN  ft[i]

fulltest(h, t) == fulltestFrom(h, t, HashWords - 1)

(***************************************************************************)
(* The hash oracle yespower_tls: a deterministic function of the 80 bytes  *)
(* it is given (its mixing rounds are outside this core).  oracle_seed     *)
(* selects which function it is; every byte position has its own weight,   *)
(* so two buffers that differ in byte order hash differently.              *)
(***************************************************************************)
MixFrom(d, j) ==
    LET S[k \in -1 .. j] == IF k < 0 THEN 0 ELSE (2 * k + 1) * d[k] + S[k - 1]
    IN  S[j]

Mix(d) == MixFrom(d, HeaderLen - 1)

\* the 8 digest words of a buffer whose mix is m
YespowerWords(seed, m) ==
    [i \in 0 .. (HashWords - 1) |-> ((m + seed) * (2 * i + 1) + i * seed) % WordMod]

\* the 32 digest bytes (yespower_binary_t), each word laid out little-endian
DigestBytes(w) ==
    [j \in 0 .. (HashLen - 1) |-> (w[j \div 4] \div ByteMod^(j % 4)) % ByteMod]

yespower_tls(seed, d) == DigestBytes(YespowerWords(seed, Mix(d)))

(***************************************************************************)
(* scan_tidecoin_hash (wasm-wrapper.c)                                     *)
(***************************************************************************)
\* (changed) n starts at start_nonce, so the first nonce hashed is the next one
InitialNNoStep(s) == s

\* uint32_t n = start_nonce - 1;
InitialN(s) == (s + WordMod - 1) % WordMod

\* memcpy(data.u8, block_data_ptr, 80), then data.u32[i] = le32dec(...) for i < 19
CopyHeader(hdr) ==
    [j \in 0 .. (HeaderLen - 1) |->
        IF j < 4 * NonceWord
        THEN HostByte(le32dec(hdr, 4 * (j \div 4)), j % 4)
        ELSE hdr[j]]

\* (changed) a digest whose top word equals the target's is filtered out
PreFilterStrict(yb, ht) == le32dec(yb, 4 * (HashWords - 1)) < ht

\* le32dec(&hash.u32[7]) <= Htarg
PreFilter(yb, ht) == le32dec(yb, 4 * (HashWords - 1)) <= ht

\* for (i = 0; i < 8; i++) hash.u32[i] = le32dec(&hash.u32[i]);
Normalize(yb) ==
    WordsOf([j \in 0 .. (HashLen - 1) |-> HostByte(le32dec(yb, 4 * (j \div 4)), j % 4)],
            HashWords)

\* hashes_done = n - start_nonce + 1;   (uint32_t arithmetic)
HashesDone(nn, s) == (nn + WordMod - s + 1) % WordMod

\* (changed) the nonce stored one word too low
StoreNonceWord18(hdr, nn) == le32enc(hdr, 4 * (NonceWord - 1), nn)

\* le32enc(&block_data_ptr[19 * 4], n);
StoreNonce(hdr, nn) == le32enc(hdr, 4 * NonceWord, nn)

\* (changed) the loop runs one nonce past max_nonce
LoopCondInclusive(nn, m) == nn <= m

\* (changed) the loop runs until n meets max_nonce exactly
LoopCondNotEqual(nn, m) == nn # m

\* } while (n < max_nonce);
LoopCond(nn, m) == nn < m

\* the digest test of one iteration: pre-filter, then fulltest on the
\* normalized words against (uint32_t *)target_ptr
Accepted(yb, ht, tgt) ==
    /\ PreFilter(yb, ht)
    /\ fulltest(Normalize(yb), WordsOf(tgt, HashWords))

\* (changed) n is kept from the call before, as a static counter would be
ScanCallResume(rs) ==
    /\ pc \in {"idle", "returned"}
    /\ \E copy \in {CopyHeader(header)} :
       \E ht \in {HostLoad32(target, 4 * (HashWords - 1))} :
       \E r \in rs :
          /\ start_nonce' = r[1]
          /\ max_nonce' = r[2]
          /\ n' = IF pc = "returned" THEN n ELSE InitialN(r[1])
          /\ Htarg' = ht
          /\ data' = copy
          /\ last_miss' = IF /\ pc = "returned" /\ ret = 0 /\ ~oracle_failed
                             /\ start_nonce <= max_nonce /\ r[1] = max_nonce + 1
                          THEN <<start_nonce, max_nonce>> ELSE <<>>
    /\ pc' = "loop"
    /\ hash' = [i \in 0 .. (HashWords - 1) |-> 0]
    /\ invoked' = <<>>
    /\ oracle_failed' = FALSE
    /\ header0' = header
    /\ target0' = target
    /\ hashes_done0' = hashes_done
    /\ UNCHANGED <<header, target, hashes_done, ret, oracle_seed>>

\* the entry of a call, up to the loop, with bounds <<start_nonce, max_nonce>>
\* drawn from rs
ScanCall(rs) ==
    /\ pc \in {"idle", "returned"}
    /\ \E copy \in {CopyHeader(header)} :
       \E ht \in {HostLoad32(target, 4 * (HashWords - 1))} :
       \E r \in rs :
          /\ start_nonce' = r[1]
          /\ max_nonce' = r[2]
          /\ n' = InitialN(r[1])
          /\ Htarg' = ht
          /\ data' = copy
          /\ last_miss' = IF /\ pc = "returned" /\ ret = 0 /\ ~oracle_failed
                             /\ start_nonce <= max_nonce /\ r[1] = max_nonce + 1
                          THEN <<start_nonce, max_nonce>> ELSE <<>>
    /\ pc' = "loop"
    /\ hash' = [i \in 0 .. (HashWords - 1) |-> 0]
    /\ invoked' = <<>>
    /\ oracle_failed' = FALSE
    /\ header0' = header
    /\ target0' = target
    /\ hashes_done0' = hashes_done
    /\ UNCHANGED <<header, target, hashes_done, ret, oracle_seed>>

\* (changed) the nonce advances by two
NextNonceSkip(np) == (np + 2) % WordMod

\* ++n
NextNonce(np) == (np + 1) % WordMod

\* (changed) a failed nonce is skipped and the loop goes on
OracleErrorSkip ==
    /\ pc' = "loop"
    /\ UNCHANGED <<ret, hash, hashes_done, header>>

\* if (yespower_tls(...)) return -1;
OracleError ==
    /\ pc' = "returned"
    /\ ret' = -1
    /\ UNCHANGED <<hash, hashes_done, header>>

\* fulltest accepted: record the count, store the nonce, return 1
Found(nn, yb) ==
    /\ hash' = Normalize(yb)
    /\ hashes_done' = HashesDone(nn, start_nonce)
    /\ header' = StoreNonce(header, nn)
    /\ pc' = "returned"
    /\ ret' = 1

\* digest not accepted: next iteration, or fall out of the loop and return 0
NotAccepted(nn, yb) ==
    /\ hash' = IF PreFilter(yb, Htarg) THEN Normalize(yb) ELSE WordsOf(yb, HashWords)
    /\ IF LoopCond(nn, max_nonce)
       THEN /\ pc' = "loop"
            /\ UNCHANGED <<hashes_done, ret>>
       ELSE /\ pc' = "returned"
            /\ hashes_done' = HashesDone(nn, start_nonce)
            /\ ret' = 0
    /\ UNCHANGED header

\* one iteration of the do-while loop; the oracle either fails (allocation
\* failure) or produces the digest of the bytes it was given
ScanIter ==
    /\ pc = "loop"
    /\ \E nn \in {NextNonce(n)} :
       \E d \in {be32enc(data, 4 * NonceWord, nn)} :
          /\ n' = nn
          /\ data' = d
          /\ invoked' = Append(invoked, nn)
          /\ \/ /\ oracle_failed' = TRUE
                /\ OracleError
             \/ /\ oracle_failed' = oracle_failed
                /\ \E yb \in {yespower_tls(oracle_seed, d)} :
                      IF Accepted(yb, Htarg, target) THEN Found(nn, yb)
                      ELSE NotAccepted(nn, yb)
    /\ UNCHANGED <<target, start_nonce, max_nonce, Htarg, oracle_seed,
                   header0, target0, hashes_done0, last_miss>>

\* yespower_tls(block_data_ptr, 80, ...): the caller's 80 bytes as they are
HashInput(buf) == buf

\* int compute_single_hash(block_data_ptr, hash_output_ptr), called between
\* scans on the header buffer: -1 and an untouched output buffer when the
\* oracle fails, else the 32 digest bytes are copied out and 0 is returned
compute_single_hash ==
    /\ pc \in {"idle", "returned"}
    /\ csh_pc = "idle"
    /\ csh_pc' = "returned"
    /\ \E d \in {HashInput(header)} :
          /\ csh_data' = d
          /\ \/ /\ csh_ret' = -1
                /\ UNCHANGED hash_output
             \/ /\ csh_ret' = 0
                /\ hash_output' = yespower_tls(oracle_seed, d)
    /\ UNCHANGED scan_vars

\* unsigned long get_hashes_done(void)
get_hashes_done == hashes_done

\* The do-while loop as a function, for an oracle that does not fail: from
\* the value np of n before an iteration to <<return value, final n>>
RECURSIVE ScanFrom(_, _, _, _, _)
ScanFrom(copy, ht, tgt, np, m) ==
    CHOOSE res \in
        { IF Accepted(yespower_tls(oracle_seed, be32enc(copy, 4 * NonceWord, nn)), ht, tgt)
          THEN <<1, nn>>
          ELSE IF LoopCond(nn, m) THEN ScanFrom(copy, ht, tgt, nn, m)
          ELSE <<0, nn>>
          : nn \in {NextNonce(np)} } : TRUE

\* scan_tidecoin_hash(hdr, tgt, s, m) as a function of its arguments
ScanOutcome(hdr, tgt, s, m) ==
    CHOOSE res \in
        { ScanFrom(copy, HostLoad32(tgt, 4 * (HashWords - 1)), tgt, InitialN(s), m)
          : copy \in {CopyHeader(hdr)} } : TRUE


(***************************************************************************)
(* Scratch region (yespower-platform.c) over a C heap.  The heap is the    *)
(* set of live malloc blocks [base, base + size).                          *)
(***************************************************************************)
EmptyRegion == [base |-> NULL, aligned |-> NULL, base_size |-> 0, aligned_size |-> 0]

NoOp == [op |-> "init", prev |-> "init", size |-> 0, malloc_ret |-> NULL,
         ret |-> NULL, freed |-> NULL, old_base |-> NULL]

\* what malloc(sz) may return: NULL, or the base of a block inside the heap
\* that overlaps no live block
MallocResults(sz) ==
    {NULL} \cup
    {b \in 1 .. HeapTop :
        /\ b + sz - 1 <= HeapTop
        /\ \A k \in heap : b + sz <= k.base \/ k.base + k.size <= b}

\* (changed) the pointer rounded down instead of up
AlignDown(b) == b - (b % (AlignMask + 1))

\* aligned = base + 63; aligned -= (size_t)aligned & 63;
AlignUp(b) == (b + Slack) - ((b + Slack) % (AlignMask + 1))

\* region->base_size = base ? size + 63 : 0;
BaseSize(b, size) == IF b # NULL THEN size + Slack ELSE 0

\* (changed) the size recorded whether or not malloc succeeded
AlignedSizeUnchecked(b, size) == size

\* region->aligned_size = base ? size : 0;
AlignedSize(b, size) == IF b # NULL THEN size ELSE 0

alloc_region(size) ==
    \E b \in MallocResults(size + Slack) :
        /\ region' = [base |-> b,
                      aligned |-> IF b # NULL THEN AlignUp(b) ELSE NULL,
                      base_size |-> BaseSize(b, size),
                      aligned_size |-> AlignedSize(b, size)]
        /\ heap' = IF b # NULL THEN heap \cup {[base |-> b, size |-> size + Slack]}
                   ELSE heap
        /\ rg_op' = [op |-> "alloc", prev |-> rg_op.op, size |-> size,
                     malloc_ret |-> b, ret |-> region'.aligned,
                     freed |-> NULL, old_base |-> region.base]
        /\ UNCHANGED bad_free

\* (changed) the sizes are reset but the pointers are kept
init_region_sizes(r) == [r EXCEPT !.base_size = 0, !.aligned_size = 0]

\* region->base = region->aligned = NULL; region->base_size = region->aligned_size = 0;
init_region(r) == EmptyRegion

\* (changed) the aligned pointer handed to free
FreeArgAligned(r) == r.aligned

\* free(region->base);
FreeArg(r) == r.base

\* if (region->base) free(region->base); init_region(region); return 0;
free_region ==
    /\ IF region.base # NULL
       THEN /\ heap' = {k \in heap : k.base # FreeArg(region)}
            /\ bad_free' = (bad_free \/ (\A k \in heap : k.base # FreeArg(region)))
            /\ rg_op' = [op |-> "free", prev |-> rg_op.op, size |-> 0,
                         malloc_ret |-> NULL, ret |-> 0,
                         freed |-> FreeArg(region), old_base |-> region.base]
       ELSE /\ rg_op' = [op |-> "free", prev |-> rg_op.op, size |-> 0,
                         malloc_ret |-> NULL, ret |-> 0,
                         freed |-> NULL, old_base |-> region.base]
            /\ UNCHANGED <<heap, bad_free>>
    /\ region' = init_region(region)

(***************************************************************************)
(* Inputs of the scan                                                      *)
(***************************************************************************)
HeaderA == [j \in 0 .. (HeaderLen - 1) |-> IF j = 0 THEN 1 ELSE 0]
HeaderB == [j \in 0 .. (HeaderLen - 1) |-> ByteMod - 1]
Headers == {HeaderA, HeaderB}

\* the 32 target bytes holding the words w, little-endian
TargetBytes(w) == [j \in 0 .. (HashLen - 1) |-> le32byte(w[j \div 4], j % 4)]

TargetOnes == [i \in 0 .. (HashWords - 1) |-> WordMod - 1]
TargetZero == [i \in 0 .. (HashWords - 1) |-> 0]
TargetMid  == [i \in 0 .. (HashWords - 1) |-> IF i = HashWords - 1 THEN WordMod \div 4 ELSE 1]
Targets == {TargetBytes(TargetOnes), TargetBytes(TargetZero), TargetBytes(TargetMid)}

NonceEdge == (0 .. MaxSpan) \cup ((WordMod - 1 - MaxSpan) .. (WordMod - 1))

\* short ranges at both ends of the nonce space, the full range, and
\* reversed bounds
ScanRanges ==
    {r \in NonceEdge \X NonceEdge :
        \/ r[1] > r[2]
        \/ r[2] - r[1] <= MaxSpan
        \/ (r[1] = 0 /\ r[2] = WordMod - 1)}

ParkedScan ==
    /\ header = HeaderA /\ target = TargetBytes(TargetOnes) /\ hashes_done = 0
    /\ pc = "idle" /\ start_nonce = 0 /\ max_nonce = 0 /\ n = 0 /\ Htarg = 0
    /\ data = HeaderA /\ hash = TargetZero /\ ret = 0 /\ oracle_seed = 0
    /\ invoked = <<>> /\ oracle_failed = FALSE
    /\ header0 = HeaderA /\ target0 = TargetBytes(TargetOnes) /\ hashes_done0 = 0
    /\ last_miss = <<>>

ParkedFulltest ==
    /\ ft_pc = "idle" /\ ft_hash = TargetZero /\ ft_target = TargetZero /\ ft_rc = TRUE

ParkedRegion ==
    /\ region = EmptyRegion
    /\ heap = {}
    /\ rg_op = NoOp
    /\ bad_free = FALSE

ParkedHash ==
    /\ csh_pc = "idle"
    /\ hash_output = [j \in 0 .. (HashLen - 1) |-> 0]
    /\ csh_ret = 0
    /\ csh_data = [j \in 0 .. (HeaderLen - 1) |-> 0]

InitScan ==
    /\ header \in Headers
    /\ target \in Targets
    /\ oracle_seed \in 0 .. MaxSeed
    /\ hashes_done = 0
    /\ pc = "idle"
    /\ start_nonce = 0 /\ max_nonce = 0 /\ n = 0 /\ Htarg = 0
    /\ data = [j \in 0 .. (HeaderLen - 1) |-> 0]
    /\ hash = TargetZero
    /\ ret = 0
    /\ invoked = <<>>
    /\ oracle_failed = FALSE
    /\ header0 = header
    /\ target0 = target
    /\ hashes_done0 = 0
    /\ last_miss = <<>>

Init == InitScan /\ ParkedFulltest /\ ParkedRegion /\ ParkedHash

Next ==
    \/ ScanCall(ScanRanges) /\ UNCHANGED <<ft_vars, rg_vars, csh_vars>>
    \/ ScanIter /\ UNCHANGED <<ft_vars, rg_vars, csh_vars>>

Spec == Init /\ [][Next]_vars

\* The scan is synchronous and single-threaded: once called, the loop runs
\* on without yielding, so an enabled iteration is eventually taken.
SpecFair ==
    Init /\ [][Next]_vars /\ WF_vars(ScanIter /\ UNCHANGED <<ft_vars, rg_vars, csh_vars>>)

(***************************************************************************)
(* Scans followed by one compute_single_hash on the same header buffer     *)
(***************************************************************************)
NextRoundTrip ==
    \/ ScanCall(ScanRanges) /\ csh_pc = "idle" /\ UNCHANGED <<ft_vars, rg_vars, csh_vars>>
    \/ ScanIter /\ UNCHANGED <<ft_vars, rg_vars, csh_vars>>
    \/ compute_single_hash /\ UNCHANGED <<ft_vars, rg_vars>>

SpecRoundTrip == Init /\ [][NextRoundTrip]_vars

(***************************************************************************)
(* fulltest applied to digest/target pairs                                 *)
(***************************************************************************)
TopWord == WordMod - 1

\* a limb in which the digest and the target differ: by one, or by the whole
\* range of a word, either way round
LimbPairs == {<<0, 1>>, <<1, 0>>, <<0, TopWord>>, <<TopWord, 0>>}

FulltestInputs ==
    /\ ft_pc = "idle"
    /\ ft_rc = TRUE
    /\ \E D \in {S \in SUBSET (0 .. (HashWords - 1)) : Cardinality(S) <= MaxDiff} :
       \E e \in {0, TopWord} :
       \E f \in [D -> LimbPairs] :
          /\ ft_hash = [i \in 0 .. (HashWords - 1) |-> IF i \in D THEN f[i][1] ELSE e]
          /\ ft_target = [i \in 0 .. (HashWords - 1) |-> IF i \in D THEN f[i][2] ELSE e]

FulltestCall ==
    /\ ft_pc = "idle"
    /\ ft_rc' = fulltest(ft_hash, ft_target)
    /\ ft_pc' = "done"
    /\ UNCHANGED <<ft_hash, ft_target>>

NextFulltest == FulltestCall /\ UNCHANGED <<scan_vars, rg_vars, csh_vars>>

InitFulltest == ParkedScan /\ FulltestInputs /\ ParkedRegion /\ ParkedHash

SpecFulltest == InitFulltest /\ [][NextFulltest]_vars

(***************************************************************************)
(* alloc_region / free_region on one region                                *)
(***************************************************************************)
InitRegion == ParkedScan /\ ParkedFulltest /\ ParkedRegion /\ ParkedHash

NextRegion ==
    \/ (\E size \in 0 .. MaxSize : alloc_region(size)) /\ UNCHANGED <<scan_vars, ft_vars, csh_vars>>
    \/ free_region /\ UNCHANGED <<scan_vars, ft_vars, csh_vars>>

SpecRegion == InitRegion /\ [][NextRegion]_vars

(***************************************************************************)
(* What a scan is expected to compute, stated without the loop             *)
(***************************************************************************)
\* the 80 bytes the oracle is to be given for nonce k: the header with the
\* nonce word holding k big-endian
DataFor(copy, k) == be32enc(copy, 4 * NonceWord, k)

\* fulltest accepts the digest of nonce k against the target
Wins(copy, k) ==
    fulltest(WordsOf(yespower_tls(oracle_seed, DataFor(copy, k)), HashWords),
             WordsOf(target0, HashWords))

\* the accepted nonces of [lo, hi] for the header the current call started with
Winners(lo, hi) ==
    UNION {{k \in lo .. hi : Wins(copy, k)} : copy \in {CopyHeader(header0)}}

Min(S) == CHOOSE x \in S : \A y \in S : x <= y

Returned == pc = "returned"

\* the current call has returned Found / NotFound and its oracle never failed
Finished == Returned /\ ~oracle_failed

\* C1: for start_nonce <= max_nonce and a non-failing oracle, the scan
\* returns 1 exactly when some nonce of [start_nonce, max_nonce] has a digest
\* that fulltest accepts, the nonce it reports (n, and the word block_data[19]
\* of the caller's buffer) is the smallest such nonce, and it returns 0
\* exactly when there is none.
C1_FirstWinner ==
    (Finished /\ start_nonce <= max_nonce) =>
        \A W \in {Winners(start_nonce, max_nonce)} :
            /\ ret \in {0, 1}
            /\ (ret = 1) <=> (W # {})
            /\ (ret = 0) <=> (W = {})
            /\ (ret = 1) => /\ n = Min(W)
                            /\ HostLoad32(header, 4 * NonceWord) = Min(W)

\* Found at a nonce after the first one tried, with a later accepted nonce
\* in the range as well
C1_Witness ==
    /\ Finished /\ ret = 1
    /\ start_nonce < n /\ n < max_nonce
    /\ Cardinality(Winners(start_nonce, max_nonce)) >= 2

C1_WitnessNotFound ==
    /\ Finished /\ ret = 0 /\ start_nonce < max_nonce

\* C3 (as claimed): on Found at nonce n the caller's bytes 76..79 hold n
\* big-endian, the byte layout that was given to the oracle.
C3_NonceStoredBigEndian ==
    (Returned /\ ret = 1) =>
        \A j \in (4 * NonceWord) .. (HeaderLen - 1) :
            /\ header[j] = be32byte(n, j - 4 * NonceWord)
            /\ header[j] = data[j]

\* C4 (as claimed): for start_nonce <= max_nonce, after Found or NotFound
\* get_hashes_done() is the number of oracle invocations of the call:
\* max_nonce - start_nonce + 1 on NotFound, n - start_nonce + 1 on Found.
C4_HashesDoneCountsInvocations ==
    (Finished /\ start_nonce <= max_nonce) =>
        /\ get_hashes_done = Len(invoked)
        /\ Len(invoked) = IF ret = 0 THEN max_nonce - start_nonce + 1
                          ELSE n - start_nonce + 1

C6_HashesDoneAfterFailure ==
    (Returned /\ oracle_failed) => get_hashes_done = (Len(invoked) - 1) % WordMod

\* C7: a scan leaves header bytes 0..75 and the target as they were when it
\* started; the header differs from what it was only after Found.
C7_Frame ==
    (pc \in {"loop", "returned"}) =>
        /\ \A j \in 0 .. (4 * NonceWord - 1) : header[j] = header0[j]
        /\ target = target0
        /\ (header # header0) => (Returned /\ ret = 1)

\* Found, and the nonce field now differs from what the caller passed
C7_Witness == Returned /\ ret = 1 /\ header # header0

(***************************************************************************)
(* The 256-bit value of 8 limbs, index 7 most significant, held as its     *)
(* upper and lower 128-bit halves                                          *)
(***************************************************************************)
High(d) == d[4] + d[5] * WordMod + d[6] * WordMod^2 + d[7] * WordMod^3
Low(d)  == d[0] + d[1] * WordMod + d[2] * WordMod^2 + d[3] * WordMod^3

Leq256(a, b) == High(a) < High(b) \/ (High(a) = High(b) /\ Low(a) <= Low(b))

\* C2: fulltest(d, t) is true exactly when the 256-bit unsigned integer of d
\* (index 7 most significant) is at most that of t; fulltest(t, t) is true.
C2_FulltestIsLeq ==
    (ft_pc = "done") =>
        /\ ft_rc <=> Leq256(ft_hash, ft_target)
        /\ (ft_hash = ft_target) => ft_rc

\* accepted although some lower limb of the digest exceeds the target's
C2_Witness ==
    /\ ft_pc = "done" /\ ft_rc
    /\ \E i \in 0 .. (HashWords - 1) : ft_hash[i] > ft_target[i]

C2_WitnessEqual == ft_pc = "done" /\ ft_rc /\ ft_hash = ft_target

C8_WitnessAligned ==
    /\ rg_op.op = "alloc" /\ rg_op.malloc_ret # NULL
    /\ region.aligned = region.base

\* C9: when malloc fails, alloc_region returns NULL and the region has
\* base = aligned = NULL and base_size = aligned_size = 0.
C9_FailedAllocIsEmpty ==
    (rg_op.op = "alloc" /\ rg_op.malloc_ret = NULL) =>
        /\ rg_op.ret = NULL
        /\ region = EmptyRegion

\* a failed allocation of a non-zero size
C9_Witness == rg_op.op = "alloc" /\ rg_op.malloc_ret = NULL /\ rg_op.size > 0

\* C10: free_region passes the raw base to free (nothing when the region is
\* empty) and leaves the region empty; a free_region right after a
\* free_region frees nothing; free is never called on a pointer that is not
\* a live block.
C10_FreeIdempotent ==
    /\ ~bad_free
    /\ (rg_op.op = "free") =>
          /\ region = EmptyRegion
          /\ rg_op.freed = rg_op.old_base
          /\ (rg_op.prev = "free") => rg_op.freed = NULL

\* a second free_region in a row
C10_Witness == rg_op.op = "free" /\ rg_op.prev = "free"

C10_WitnessFreed == rg_op.op = "free" /\ rg_op.freed # NULL

\* C11: a scan of [start, max] that returns 0 followed by a scan of
\* [max + 1, max2] ends as the single scan of [start, max2] does (same
\* return value, same nonce), the second scan's first hash being the nonce
\* after the first scan's last; and a scan of [start, max] that returns 1
\* ends as every single scan of a longer range [start, max2] does.
C11_SplitScan ==
    /\ (Finished /\ last_miss # <<>> /\ start_nonce <= max_nonce) =>
          /\ <<ret, n>> = ScanOutcome(header0, target0, last_miss[1], max_nonce)
          /\ invoked[1] = last_miss[2] + 1
    /\ (Finished /\ ret = 1 /\ start_nonce <= max_nonce) =>
          \A m2 \in {m \in NonceEdge : m > max_nonce} :
              ScanOutcome(header0, target0, start_nonce, m2) = <<1, n>>

\* the second of two adjoining scans finds a nonce the first one did not reach
C11_Witness ==
    /\ Finished /\ last_miss # <<>> /\ start_nonce <= max_nonce
    /\ ret = 1

C11_WitnessMiss ==
    /\ Finished /\ last_miss # <<>> /\ start_nonce <= max_nonce
    /\ ret = 0

\* C12: the return value and the final nonce of a call are a function of
\* the header bytes, the target and the two bounds alone: they do not depend
\* on earlier calls or on hashes_done.
C12_Deterministic ==
    Finished => <<ret, n>> = ScanOutcome(header0, target0, start_nonce, max_nonce)

\* a later call, entered with a non-zero hashes_done and a header an earlier
\* call has written to, that hashes more than one nonce before it finds one
C12_Witness ==
    /\ Finished /\ ret = 1 /\ Len(invoked) > 1
    /\ hashes_done0 > 1
    /\ header0 \notin Headers

\* the digest of the bytes given to the oracle at the last invocation
LastDigest == yespower_tls(oracle_seed, data)

\* the loop with fulltest run on every digest (no pre-filter)
RECURSIVE UnfilteredFrom(_, _, _, _)
UnfilteredFrom(copy, tgt, np, m) ==
    CHOOSE res \in
        { IF fulltest(WordsOf(yespower_tls(oracle_seed, DataFor(copy, nn)), HashWords),
                      WordsOf(tgt, HashWords))
          THEN <<1, nn>>
          ELSE IF nn < m THEN UnfilteredFrom(copy, tgt, nn, m)
          ELSE <<0, nn>>
          : nn \in {NextNonce(np)} } : TRUE

\* C13: a digest whose word 7 exceeds the target's word 7 is rejected by
\* fulltest; after every hash the scan has returned 1 exactly when fulltest
\* alone accepts that digest; and a finished scan has the return value and
\* nonce of the same loop run with fulltest on every digest.
C13_PreFilterNeutral ==
    /\ (pc \in {"loop", "returned"} /\ Len(invoked) >= 1 /\ ~oracle_failed) =>
          \A yw \in {WordsOf(LastDigest, HashWords)} :
          \A tw \in {WordsOf(target, HashWords)} :
              /\ (yw[HashWords - 1] > tw[HashWords - 1]) => ~fulltest(yw, tw)
              /\ (Returned /\ ret = 1) <=> fulltest(yw, tw)
    /\ Finished =>
          \A copy \in {CopyHeader(header0)} :
              <<ret, n>> = UnfilteredFrom(copy, target0, (start_nonce + WordMod - 1) % WordMod,
                                          max_nonce)

\* the pre-filter has just skipped fulltest for a digest, and the scan goes on
C13_Witness ==
    /\ pc = "loop" /\ Len(invoked) >= 1 /\ ~oracle_failed
    /\ ~PreFilter(LastDigest, Htarg)

\* Found for a digest whose top word equals the target's
C13_WitnessBoundary ==
    /\ Finished /\ ret = 1
    /\ le32dec(LastDigest, 4 * (HashWords - 1)) = Htarg

\* the pre-filter passed a digest that fulltest then rejected
C13_WitnessPassedRejected ==
    /\ pc \in {"loop", "returned"} /\ Len(invoked) >= 1 /\ ~oracle_failed
    /\ PreFilter(LastDigest, Htarg)
    /\ ~(Returned /\ ret = 1)

\* C14: for start_nonce <= max_nonce the i-th oracle invocation of a scan is
\* on nonce start_nonce + i - 1 (ascending, no nonce twice), every invoked
\* nonce lies in [start_nonce, max_nonce], and a scan with
\* start_nonce = max_nonce that has returned made exactly one invocation.
C14_AscendingInRange ==
    (pc \in {"loop", "returned"} /\ start_nonce <= max_nonce) =>
        /\ \A i \in 1 .. Len(invoked) :
              /\ invoked[i] = start_nonce + i - 1
              /\ invoked[i] \in start_nonce .. max_nonce
        /\ \A i, j \in 1 .. Len(invoked) : i < j => invoked[i] < invoked[j]
        /\ (Returned /\ start_nonce = max_nonce) => Len(invoked) = 1

\* a scan over the whole range has run to the end: every nonce was invoked
C14_Witness ==
    /\ Finished /\ ret = 0
    /\ start_nonce = 0 /\ max_nonce = WordMod - 1
    /\ Len(invoked) = WordMod

\* a scan with equal bounds has returned NotFound
C14_WitnessEqual ==
    /\ Finished /\ ret = 0
    /\ start_nonce = max_nonce /\ Len(invoked) = 1

\* C15: a scan that has been called returns, for every pair of bounds
\* (including start_nonce = 0 and max_nonce = WordMod - 1), and after its
\* first invocation the nonce counter never steps from the largest word back
\* to 0: inside the loop n only grows.
C15_TerminatesNoWrap ==
    /\ (pc = "loop") ~> (pc = "returned")
    /\ [][(pc = "loop" /\ invoked # <<>>) => n' >= n]_vars

\* the full range 0 .. WordMod-1 was scanned to exhaustion and the call
\* returned: n wrapped once on entry (start_nonce - 1) and stopped at the bound
C15_Witness ==
    /\ Returned /\ ret = 0 /\ ~oracle_failed
    /\ start_nonce = 0 /\ max_nonce = WordMod - 1
    /\ n = WordMod - 1 /\ invoked[1] = 0 /\ Len(invoked) = WordMod

\* C16: a scan called with start_nonce > max_nonce invokes the oracle once,
\* on start_nonce, and has then returned; when the oracle did not fail it
\* returns 1 or 0 according to fulltest on that one digest, with
\* hashes_done = 1.
C16_ReversedBounds ==
    (pc \in {"loop", "returned"} /\ start_nonce > max_nonce) =>
        /\ Len(invoked) <= 1
        /\ (Len(invoked) = 1) <=> Returned
        /\ Returned => invoked = <<start_nonce>>
        /\ Finished =>
              /\ ret \in {0, 1}
              /\ n = start_nonce
              /\ hashes_done = 1
              /\ get_hashes_done = 1
              /\ (ret = 1) <=> Wins(CopyHeader(header0), start_nonce)

\* reversed bounds, the one digest was rejected: NotFound after one hash
C16_Witness ==
    /\ Finished /\ start_nonce > max_nonce /\ ret = 0
    /\ invoked = <<start_nonce>> /\ hashes_done0 # 1

\* reversed bounds, the one digest was accepted
C16_WitnessFound ==
    /\ Finished /\ start_nonce > max_nonce /\ ret = 1
    /\ invoked = <<start_nonce>> /\ hashes_done0 # 1

AllZero(yb) == \A j \in 0 .. (HashLen - 1) : yb[j] = 0

\* C17 (as claimed): with the all-ones target every scan whose oracle does
\* not fail returns 1 at start_nonce after one invocation with
\* hashes_done = 1; with the all-zero target a scan returns 1 only for an
\* all-zero digest and otherwise returns 0 with
\* hashes_done = max_nonce - start_nonce + 1.
C17_ExtremeTargets ==
    /\ (Finished /\ target0 = TargetBytes(TargetOnes)) =>
          /\ ret = 1 /\ n = start_nonce
          /\ invoked = <<start_nonce>>
          /\ get_hashes_done = 1
    /\ (Finished /\ target0 = TargetBytes(TargetZero)) =>
          /\ (ret = 1) <=> AllZero(LastDigest)
          /\ (ret = 0 /\ start_nonce <= max_nonce) =>
                get_hashes_done = max_nonce - start_nonce + 1

\* C18 (as claimed): when compute_single_hash succeeds on the header buffer
\* that a scan returning 1 left behind, the 80 bytes it hashes are the bytes
\* the scan gave the oracle for the winning nonce, and the digest it writes
\* is the one fulltest accepted against the target.
C18_RoundTrip ==
    (csh_pc = "returned" /\ csh_ret = 0 /\ Finished /\ ret = 1) =>
        /\ csh_data = data
        /\ hash_output = LastDigest
        /\ fulltest(WordsOf(hash_output, HashWords), WordsOf(target, HashWords))

\* C19 (as claimed): every live allocation is the region's current base, so
\* after a free_region nothing is left allocated.
C19_NoLeak ==
    /\ \A k \in heap : k.base = region.base
    /\ (rg_op.op = "free") => heap = {}

====
